---- MODULE Spec2Model ----
(***************************************************************************)
(* Mood journal pipeline of src/src/App.tsx: the App component's state,    *)
(* its handlers (analyzeMood, generatePersonalizedContent,                 *)
(* generatePatternInsights, generateWeeklySummary), its two effects and    *)
(* the gateway (spark.llm) calls in flight.                                *)
(*                                                                         *)
(* Time is counted in ticks of half a day; strings the code inspects       *)
(* (the input text, the id) are sequences of one-character strings.        *)
(***************************************************************************)
EXTENDS Integers, Sequences, FiniteSets, TLC

VARIABLES
    now,                  \* the clock, Date.now(), in ticks
    mounted,              \* the component has rendered once and run its effects
    moodHistory,          \* useKV 'mood-history'
    weeklySummaries,      \* useKV 'weekly-summaries'
    currentInput,         \* the text area
    isAnalyzing,
    currentMood,
    patternInsights,
    isGeneratingInsights,
    toast,                \* the last toast shown (sonner)
    classifyCalls,        \* spark.llm calls of analyzeMood awaiting their answer
    elaborateCalls,       \* spark.llm calls of generatePersonalizedContent
    patternCalls,         \* spark.llm calls of generatePatternInsights
    summarizeCalls,       \* spark.llm calls of generateWeeklySummary
    submits,              \* classify requests issued so far
    summarizeIssued       \* summarize requests issued so far

vars == <<now, mounted, moodHistory, weeklySummaries, currentInput, isAnalyzing,
          currentMood, patternInsights, isGeneratingInsights, toast,
          classifyCalls, elaborateCalls, patternCalls, summarizeCalls,
          submits, summarizeIssued>>

----------------------------------------------------------------------------
(* Bounds of the model *)

\* ticks in a day: the resolution of the clock
DAY == 2
\* classify requests issued in one behaviour
MaxSubmits == 2
\* summarize requests after which the 'Generate This Week' click is no longer taken
MaxSummarize == 2
\* ticks of a week in which the clock is followed tick by tick
MaxElapsed == 1
\* weeks the clock passes
MaxWeeks == 1
\* entries of the short persisted history
ShortLen == 4
\* entries of the longest persisted history of the sessions that differ by
\* their moods
MoodLen == 6

----------------------------------------------------------------------------
(* Program constants *)

\* 7 * 24 * 60 * 60 * 1000 ms
WEEK == 7 * DAY
\* .slice(0, 50)
MaxHistory == 50
\* .slice(0, 12)
MaxSummaries == 12
\* moodHistory.length >= 5
PatternMinEntries == 5
\* moodHistory.length >= 3, weekEntries.length < 3
SummaryMinEntries == 3
\* moodHistory.slice(0, 20)
PatternWindow == 20
\* weekEntries.slice(0, 5)
SampleSize == 5
\* moodHistory.slice(0, 5) of getMoodTrend
TrendWindow == 5

\* JavaScript values: a string, a number, an array, undefined (what a read of a
\* missing property gives), NaN
Str(s) == [str |-> s]
Num(n) == [num |-> n]
Arr(items) == [items |-> items]
Undefined == [undefined |-> TRUE]
NaN == [nan |-> TRUE]
IsNum(v) == "num" \in DOMAIN v
\* content?: string, not set
NoContent == [absent |-> TRUE]
\* useState<MoodEntry | null>(null)
Null == [null |-> TRUE]

\* String(v), the conversion of a value used as a property key or in a template
ToKey(v) == IF "str" \in DOMAIN v THEN v.str ELSE "undefined"

Methods == {"text", "voice", "photo"}

ToastValidation == <<"Please enter some text to analyze">>
ToastAnalyzeFailed == <<"Failed to analyze mood. Please try again.">>
ToastSummary == <<"Weekly summary generated!">>
NoToast == <<>>

ToastMood(mood, confidence) == <<"Mood detected", mood, confidence>>

----------------------------------------------------------------------------
(* Sequences *)

Min(a, b) == IF a < b THEN a ELSE b

\* Array.prototype.slice(0, n)
Slice0(s, n) == SubSeq(s, 1, Min(Len(s), n))

RemoveAt(s, i) == SubSeq(s, 1, i - 1) \o SubSeq(s, i + 1, Len(s))

----------------------------------------------------------------------------
(* Strings *)

IsSpace(c) == c = " "

RECURSIVE TrimStart(_)
TrimStart(s) ==
    IF s # <<>> /\ IsSpace(Head(s)) THEN TrimStart(Tail(s)) ELSE s

RECURSIVE TrimEnd(_)
TrimEnd(s) ==
    IF s # <<>> /\ IsSpace(s[Len(s)]) THEN TrimEnd(SubSeq(s, 1, Len(s) - 1)) ELSE s

\* the test !input in place of !input.trim()
TrimNothing(s) == s

\* String.prototype.trim
Trim(s) == TrimEnd(TrimStart(s))

Digits == <<"0", "1", "2", "3", "4", "5", "6", "7", "8", "9">>

\* Number.prototype.toString of a non-negative integer
RECURSIVE NumberToString(_)
NumberToString(n) ==
    IF n < 10 THEN <<Digits[n + 1]>>
    ELSE Append(NumberToString(n \div 10), Digits[(n % 10) + 1])

----------------------------------------------------------------------------
(* The calendar *)

\* Date.prototype.getDay: 0 is Sunday; tick 0 is a Sunday at local midnight
GetDay(t) == (t \div DAY) % 7

\* getWeekStart: setDate(getDate() - getDay()) moves the date back to Sunday
\* and keeps the time of day
getWeekStart(t) == t - GetDay(t) * DAY

----------------------------------------------------------------------------
(* The gateway's answers.  A call either rejects (a network error) or      *)
(* resolves to a body; JSON.parse of a body throws or gives a value: an    *)
(* object (its fields), an array (its items) or null.                      *)

Rejected == [ok |-> FALSE]
NotJson == [ok |-> TRUE, json |-> FALSE]

JsonObject(fields) == [ok |-> TRUE, json |-> TRUE, type |-> "object", fields |-> fields]
JsonArray(items) == [ok |-> TRUE, json |-> TRUE, type |-> "array", items |-> items]
JsonNull == [ok |-> TRUE, json |-> TRUE, type |-> "null"]

\* await spark.llm(...) followed by JSON.parse(response) throws
ParseThrows(resp) == ~resp.ok \/ ~resp.json

\* a property read: analysis.mood
Get(value, field) ==
    IF field \in DOMAIN value.fields THEN value.fields[field] ELSE Undefined

\* a property read on null throws a TypeError
ReadThrows(value) == value.type = "null"

\* Array.isArray
IsArray(value) == value.type = "array"

ClassifyResponses ==
    { JsonObject([mood |-> Str("excited"), confidence |-> Num(92)]),
      JsonObject([mood |-> Str("sad"), confidence |-> Num(60)]),
      JsonObject([confidence |-> Num(92)]),
      JsonObject([mood |-> Str("sad")]),
      JsonNull, NotJson, Rejected }

\* spark.llm(prompt, 'gpt-4o') of generatePersonalizedContent resolves to text
ElaborateResponses ==
    { [ok |-> TRUE, text |-> Str("c1")], [ok |-> TRUE, text |-> Str("c2")], Rejected }

SummarizeResponses ==
    { JsonObject([insights |-> Arr(<<"i">>), recommendations |-> Arr(<<"r">>)]),
      NotJson, Rejected }

PatternResponses ==
    { JsonArray(<<[pattern |-> "p", frequency |-> 50]>>),
      JsonObject([insights |-> Arr(<<"i">>)]),
      JsonNull, NotJson, Rejected }

Texts == { <<>>, <<" ">>, <<" ", "b">> }

----------------------------------------------------------------------------
(* The aggregations of generateWeeklySummary and generatePatternInsights   *)

\* the position of key k in a Record<string, number> kept as a sequence of
\* [key, count] in insertion order; 0 when absent
RECURSIVE KeyIndex(_, _)
KeyIndex(acc, k) ==
    IF acc = <<>> THEN 0
    ELSE IF acc[Len(acc)].key = k THEN Len(acc)
    ELSE KeyIndex(SubSeq(acc, 1, Len(acc) - 1), k)

\* the step acc[entry.mood] = 1, which forgets the count so far
CountStepOverwrites(acc, key) ==
    LET i == KeyIndex(acc, key)
    IN  IF i = 0 THEN Append(acc, [key |-> key, count |-> 1])
        ELSE [acc EXCEPT ![i].count = 1]

\* acc[entry.mood] = (acc[entry.mood] || 0) + 1
CountStep(acc, key) ==
    LET i == KeyIndex(acc, key)
    IN  IF i = 0 THEN Append(acc, [key |-> key, count |-> 1])
        ELSE [acc EXCEPT ![i].count = @ + 1]

\* entries.reduce((acc, entry) => ..., {})
RECURSIVE CountMoods(_)
CountMoods(entries) ==
    IF entries = <<>> THEN <<>>
    ELSE CountStep(CountMoods(SubSeq(entries, 1, Len(entries) - 1)),
                   ToKey(entries[Len(entries)].mood))

\* an insertion that puts the pair before the pairs of equal count: a sort that
\* is not stable
RECURSIVE InsertSortedBeforeEquals(_, _)
InsertSortedBeforeEquals(sorted, p) ==
    IF sorted = <<>> THEN <<p>>
    ELSE IF Head(sorted).count > p.count
         THEN <<Head(sorted)>> \o InsertSortedBeforeEquals(Tail(sorted), p)
         ELSE <<p>> \o sorted

\* insertion of one pair into a list sorted by (a, b) => b[1] - a[1]; the sort
\* is stable, so the pair goes after the pairs of equal count
RECURSIVE InsertSorted(_, _)
InsertSorted(sorted, p) ==
    IF sorted = <<>> THEN <<p>>
    ELSE IF Head(sorted).count >= p.count
         THEN <<Head(sorted)>> \o InsertSorted(Tail(sorted), p)
         ELSE <<p>> \o sorted

\* Object.entries(moodDistribution).sort((a, b) => b[1] - a[1]); the keys are
\* mood words or "undefined", none of them an integer index, so Object.entries
\* lists them in insertion order
RECURSIVE SortByCount(_)
SortByCount(dist) ==
    IF dist = <<>> THEN <<>>
    ELSE InsertSorted(SortByCount(SubSeq(dist, 1, Len(dist) - 1)), dist[Len(dist)])

\* ...sort(...)[0][0]
DominantMood(dist) == SortByCount(dist)[1].key

\* sum + entry.confidence: a number plus undefined is NaN
Plus(sum, c) == IF IsNum(sum) /\ IsNum(c) THEN Num(sum.num + c.num) ELSE NaN

\* weekEntries.reduce((sum, entry) => sum + entry.confidence, 0)
RECURSIVE SumConfidence(_)
SumConfidence(entries) ==
    IF entries = <<>> THEN Num(0)
    ELSE Plus(SumConfidence(SubSeq(entries, 1, Len(entries) - 1)),
              entries[Len(entries)].confidence)

\* sum / weekEntries.length, kept as the pair it is the quotient of
AverageConfidence(entries) ==
    LET sum == SumConfidence(entries)
    IN  IF IsNum(sum) THEN [num |-> sum.num, den |-> Len(entries)] ELSE NaN

----------------------------------------------------------------------------
(* The trend shown above the history *)

\* ['happy', 'excited', 'calm', 'motivated']
PositiveMoods == {Str("happy"), Str("excited"), Str("calm"), Str("motivated")}

\* recent.filter(entry => [...].includes(entry.mood)).length
PositiveCount(recent) ==
    Cardinality({ k \in DOMAIN recent : recent[k].mood \in PositiveMoods })

\* the trend counted over the whole history instead of its 5 newest entries
getMoodTrendWholeHistory(history) ==
    IF Len(history) < 2 THEN Null
    ELSE LET positiveCount == PositiveCount(history)
         IN  IF positiveCount >= 3 THEN "positive"
             ELSE IF positiveCount <= 1 THEN "concerning"
             ELSE "mixed"

\* getMoodTrend, on the history of the render
getMoodTrend(history) ==
    IF Len(history) < 2 THEN Null
    ELSE LET positiveCount == PositiveCount(Slice0(history, TrendWindow))
         IN  IF positiveCount >= 3 THEN "positive"
             ELSE IF positiveCount <= 1 THEN "concerning"
             ELSE "mixed"

----------------------------------------------------------------------------
(* The stores *)

\* the append without its slice(0, 50)
AppendEntryUnbounded(history, entry) == <<entry>> \o history

\* the append at the wrong end: [...current, moodEntry].slice(0, 50)
AppendEntryAtEnd(history, entry) == Slice0(history \o <<entry>>, MaxHistory)

\* setMoodHistory(current => [moodEntry, ...current].slice(0, 50))
AppendEntry(history, entry) == Slice0(<<entry>> \o history, MaxHistory)

\* a patch that attaches the content to the newest entry, whatever its id
PatchContentNewest(history, id, content) ==
    [k \in DOMAIN history |->
        IF k = 1 THEN [history[k] EXCEPT !.content = content]
        ELSE history[k]]

\* setMoodHistory(current => current.map(entry =>
\*     entry.id === moodEntry.id ? { ...entry, content } : entry))
PatchContent(history, id, content) ==
    [k \in DOMAIN history |->
        IF history[k].id = id THEN [history[k] EXCEPT !.content = content]
        ELSE history[k]]

\* the prepend without its slice(0, 12)
PrependSummaryUnbounded(summaries, summary) == <<summary>> \o summaries

\* setWeeklySummaries(current => [summary, ...current].slice(0, 12))
PrependSummary(summaries, summary) == Slice0(<<summary>> \o summaries, MaxSummaries)

\* the entry built with text: input.trim()
NewEntryTrimmed(t, input, analysis, method) ==
    [id |-> NumberToString(t),
     timestamp |-> t,
     text |-> Trim(input),
     mood |-> Get(analysis, "mood"),
     confidence |-> Get(analysis, "confidence"),
     content |-> NoContent,
     inputMethod |-> method]

\* the MoodEntry analyzeMood builds from the classify answer
NewEntry(t, input, analysis, method) ==
    [id |-> NumberToString(t),
     timestamp |-> t,
     text |-> input,
     mood |-> Get(analysis, "mood"),
     confidence |-> Get(analysis, "confidence"),
     content |-> NoContent,
     inputMethod |-> method]

----------------------------------------------------------------------------
(* What generateWeeklySummary and generatePatternInsights compute before   *)
(* they call the gateway                                                   *)

\* entry.timestamp >= weekStart.getTime() && entry.timestamp < weekEnd.getTime()
InWindow(entry, weekStart, weekEnd) ==
    entry.timestamp >= weekStart /\ entry.timestamp < weekEnd

\* moodHistory.filter(...)
WeekEntries(history, weekStart, weekEnd) ==
    SelectSeq(history, LAMBDA e : InWindow(e, weekStart, weekEnd))

\* getWeekStart(new Date(now.getTime() - 7 * 24 * 60 * 60 * 1000))
TargetWeekStart(t) == getWeekStart(t - WEEK)

\* the locals of generateWeeklySummary at its await
SummarizeRequest(history, t) ==
    LET weekStart == TargetWeekStart(t)
        weekEnd == weekStart + WEEK
        weekEntries == WeekEntries(history, weekStart, weekEnd)
        dist == CountMoods(weekEntries)
    IN  [weekStart |-> weekStart,
         weekEnd |-> weekEnd,
         entries |-> weekEntries,
         dominantMood |-> IF dist = <<>> THEN "" ELSE DominantMood(dist),
         moodDistribution |-> dist,
         averageConfidence |-> AverageConfidence(weekEntries),
         sample |-> Slice0(weekEntries, SampleSize)]

\* the WeeklySummary built from the locals and the gateway's analysis
MakeSummary(req, analysis) ==
    [weekStart |-> req.weekStart,
     weekEnd |-> req.weekEnd,
     entries |-> req.entries,
     dominantMood |-> req.dominantMood,
     moodDistribution |-> req.moodDistribution,
     averageConfidence |-> req.averageConfidence,
     insights |-> Get(analysis, "insights"),
     recommendations |-> Get(analysis, "recommendations")]

\* the locals of generatePatternInsights at its await
PatternRequest(history) ==
    LET recentEntries == Slice0(history, PatternWindow)
    IN  [recentEntries |-> recentEntries, moodCounts |-> CountMoods(recentEntries)]

\* the condition of the weekly effect
WeeklyDue(history, summaries, t) ==
    /\ Len(history) >= SummaryMinEntries
    /\ \/ summaries = <<>>
       \/ summaries[1].weekStart < getWeekStart(t) - WEEK

----------------------------------------------------------------------------
(* The persisted records a session may start from.  The clock starts at T0, *)
(* a Sunday at local midnight; the persisted entries were recorded every    *)
(* second day, and the persisted summaries are the ones                     *)
(* generateWeeklySummary stores for the weeks they cover.                   *)

T0 == (MaxSummaries + 8) * WEEK

\* a long history is one entry short of the capacity, a long Summary Store one
\* summary short of it
PrefillLen == MaxHistory - 1
PrefillSummaries == MaxSummaries - 1

PrefillMoods == <<Str("calm"), Str("excited"), Str("excited"), Str("sad")>>

\* the i-th newest persisted entry, the newest one recorded at newest
PrefillEntry(i, newest) ==
    LET t == newest - (i - 1) * 2 * DAY
    IN  [id |-> NumberToString(t),
         timestamp |-> t,
         text |-> <<"a">>,
         mood |-> PrefillMoods[(i % 4) + 1],
         confidence |-> Num(60 + (i % 2) * 32),
         content |-> IF i % 2 = 0 THEN Str("c1") ELSE NoContent,
         inputMethod |-> "text"]

PrefillHistory(n, newest) == [i \in 1..n |-> PrefillEntry(i, newest)]

\* a history whose newest entry is a day and a half old
RecentHistory(n) == PrefillHistory(n, T0 - 2 * DAY + 1)

\* a history whose newest entry is three weeks old
DormantHistory(n) == PrefillHistory(n, T0 - 3 * WEEK + 1)

\* the summary of the week that began j weeks before T0
PrefillSummary(j) ==
    MakeSummary(SummarizeRequest(RecentHistory(PrefillLen), T0 - (j - 1) * WEEK),
                JsonObject([insights |-> Arr(<<"i">>), recommendations |-> Arr(<<"r">>)]))

\* the summaries of the weeks before last week, newest first
PrefillSummaryStore == [k \in 1..PrefillSummaries |-> PrefillSummary(k + 1)]

\* the moods of the persisted histories that differ by their moods
DrawnMoods == {"calm", "happy", "sad"}

\* a persisted history of one entry a day, the newest half a day old, with the
\* given moods, newest first
DrawnHistory(moods) ==
    [i \in 1..Len(moods) |->
        [id |-> NumberToString(T0 - i * DAY + 1),
         timestamp |-> T0 - i * DAY + 1,
         text |-> <<"a">>,
         mood |-> Str(moods[i]),
         confidence |-> Num(60),
         content |-> NoContent,
         inputMethod |-> "text"]]

\* the state after construction, from the persisted records
Start(history, summaries) ==
    /\ now = T0
    /\ mounted = FALSE
    /\ moodHistory = history
    /\ weeklySummaries = summaries
    /\ currentInput = <<>>
    /\ isAnalyzing = FALSE
    /\ currentMood = Null
    /\ patternInsights = <<>>
    /\ isGeneratingInsights = FALSE
    /\ toast = NoToast
    /\ classifyCalls = <<>>
    /\ elaborateCalls = <<>>
    /\ patternCalls = <<>>
    /\ summarizeCalls = <<>>
    /\ submits = 0
    /\ summarizeIssued = 0

\* a first session: nothing persisted
InitFresh == Start(<<>>, <<>>)

\* a session that starts from a short recent history
InitShort == Start(RecentHistory(ShortLen), <<>>)

\* a session that starts from a long recent history and its summaries
InitLoaded == Start(RecentHistory(PrefillLen), PrefillSummaryStore)

\* a session that starts from a long history not written to for three weeks
InitDormant == Start(DormantHistory(PrefillLen), <<>>)

\* a session that starts from a history of last week, of any length up to
\* MoodLen and any moods
InitMoods ==
    \E n \in 0..MoodLen : \E moods \in [1..n -> DrawnMoods] :
        Start(DrawnHistory(moods), <<>>)

----------------------------------------------------------------------------
(* Handlers *)

\* generatePatternInsights without its first line, if (isGeneratingInsights) return
generatePatternInsightsUnguarded(history) ==
    /\ isGeneratingInsights' = TRUE
    /\ patternCalls' = Append(patternCalls, PatternRequest(history))

\* generatePatternInsights up to its await, on the history of the render
generatePatternInsights(history) ==
    IF isGeneratingInsights
    THEN UNCHANGED <<isGeneratingInsights, patternCalls>>
    ELSE /\ isGeneratingInsights' = TRUE
         /\ patternCalls' = Append(patternCalls, PatternRequest(history))

\* generateWeeklySummary that gives up only on an empty week
generateWeeklySummaryAnyEntry(history) ==
    LET req == SummarizeRequest(history, now)
    IN  IF Len(req.entries) < 1
        THEN UNCHANGED <<summarizeCalls, summarizeIssued>>
        ELSE /\ summarizeCalls' = Append(summarizeCalls, req)
             /\ summarizeIssued' = summarizeIssued + 1

\* generateWeeklySummary that gives up while a summarize call is outstanding
generateWeeklySummarySingleFlight(history) ==
    LET req == SummarizeRequest(history, now)
    IN  IF Len(req.entries) < SummaryMinEntries \/ summarizeCalls # <<>>
        THEN UNCHANGED <<summarizeCalls, summarizeIssued>>
        ELSE /\ summarizeCalls' = Append(summarizeCalls, req)
             /\ summarizeIssued' = summarizeIssued + 1

\* generateWeeklySummary up to its await, on the history of the render
generateWeeklySummary(history) ==
    LET req == SummarizeRequest(history, now)
    IN  IF Len(req.entries) < SummaryMinEntries
        THEN UNCHANGED <<summarizeCalls, summarizeIssued>>
        ELSE /\ summarizeCalls' = Append(summarizeCalls, req)
             /\ summarizeIssued' = summarizeIssued + 1

\* the two effects, run after a render: the first when moodHistory.length
\* changed (or on mount), the second when moodHistory changed (or on mount)
RunEffects(lengthChanged, history) ==
    /\ IF lengthChanged /\ Len(history) >= PatternMinEntries
       THEN generatePatternInsights(history)
       ELSE UNCHANGED <<isGeneratingInsights, patternCalls>>
    /\ IF WeeklyDue(history, weeklySummaries, now)
       THEN generateWeeklySummary(history)
       ELSE UNCHANGED <<summarizeCalls, summarizeIssued>>

\* the first render
Mount ==
    /\ ~mounted
    /\ mounted' = TRUE
    /\ RunEffects(TRUE, moodHistory)
    /\ UNCHANGED <<now, moodHistory, weeklySummaries, currentInput, isAnalyzing,
                   currentMood, patternInsights, toast, classifyCalls,
                   elaborateCalls, submits>>

\* the clock advances by one tick; taken in the first MaxElapsed ticks of a week
Tick ==
    /\ mounted
    /\ (now - T0) % WEEK < MaxElapsed
    /\ now' = now + 1
    /\ UNCHANGED <<mounted, moodHistory, weeklySummaries, currentInput, isAnalyzing,
                   currentMood, patternInsights, isGeneratingInsights, toast,
                   classifyCalls, elaborateCalls, patternCalls, summarizeCalls,
                   submits, summarizeIssued>>

\* the clock advances by a week
WeekPasses ==
    /\ mounted
    /\ now + WEEK <= T0 + MaxWeeks * WEEK + MaxElapsed
    /\ now' = now + WEEK
    /\ UNCHANGED <<mounted, moodHistory, weeklySummaries, currentInput, isAnalyzing,
                   currentMood, patternInsights, isGeneratingInsights, toast,
                   classifyCalls, elaborateCalls, patternCalls, summarizeCalls,
                   submits, summarizeIssued>>

\* onChange of the text area
SetCurrentInput(text) ==
    /\ mounted
    /\ text # currentInput
    /\ currentInput' = text
    /\ UNCHANGED <<now, mounted, moodHistory, weeklySummaries, isAnalyzing,
                   currentMood, patternInsights, isGeneratingInsights, toast,
                   classifyCalls, elaborateCalls, patternCalls, summarizeCalls,
                   submits, summarizeIssued>>

\* analyzeMood up to its await
analyzeMood(input, method) ==
    /\ IF Trim(input) = <<>>
       THEN /\ toast' = ToastValidation
            /\ UNCHANGED <<isAnalyzing, classifyCalls, submits>>
       ELSE /\ isAnalyzing' = TRUE
            /\ classifyCalls' = Append(classifyCalls, [input |-> input, method |-> method])
            /\ submits' = submits + 1
            /\ UNCHANGED toast
    /\ UNCHANGED <<now, mounted, moodHistory, weeklySummaries, currentInput,
                   currentMood, patternInsights, isGeneratingInsights,
                   elaborateCalls, patternCalls, summarizeCalls, summarizeIssued>>

\* the button with disabled={!currentInput.trim()} only
ClickAnalyzeWhileAnalyzing ==
    /\ mounted
    /\ ~(Trim(currentInput) = <<>>)
    /\ submits < MaxSubmits
    /\ analyzeMood(currentInput, "text")

\* the 'Analyze My Mood' button: disabled={isAnalyzing || !currentInput.trim()}
ClickAnalyze ==
    /\ mounted
    /\ ~(isAnalyzing \/ Trim(currentInput) = <<>>)
    /\ submits < MaxSubmits
    /\ analyzeMood(currentInput, "text")

\* analyzeMood called with any input and method
CallAnalyzeMood(input, method) ==
    /\ mounted
    /\ submits < MaxSubmits
    /\ analyzeMood(input, method)

\* generatePersonalizedContent up to its await
generatePersonalizedContent(moodEntry) ==
    elaborateCalls' = Append(elaborateCalls, moodEntry)

\* a catch block that also resets the displayed mood
ClassifyFailedClearsMood ==
    /\ toast' = ToastAnalyzeFailed
    /\ currentMood' = Null
    /\ UNCHANGED <<moodHistory, currentInput, elaborateCalls,
                   isGeneratingInsights, patternCalls, summarizeCalls,
                   summarizeIssued>>

\* a catch block that asks for supportive content all the same
ClassifyFailedStillElaborates ==
    /\ toast' = ToastAnalyzeFailed
    /\ elaborateCalls' =
           Append(elaborateCalls,
                  NewEntry(now, <<>>, JsonObject([error |-> TRUE]), "text"))
    /\ UNCHANGED <<moodHistory, currentMood, currentInput,
                   isGeneratingInsights, patternCalls, summarizeCalls,
                   summarizeIssued>>

\* the catch block of analyzeMood
ClassifyFailed ==
    /\ toast' = ToastAnalyzeFailed
    /\ UNCHANGED <<moodHistory, currentMood, currentInput, elaborateCalls,
                   isGeneratingInsights, patternCalls, summarizeCalls,
                   summarizeIssued>>

\* the classify call of analyzeMood settles: the rest of analyzeMood, the
\* synchronous part of generatePersonalizedContent and the effects of the render
ClassifyReturns(i, resp) ==
    /\ mounted
    /\ i \in DOMAIN classifyCalls
    /\ classifyCalls' = RemoveAt(classifyCalls, i)
    /\ isAnalyzing' = FALSE
    /\ IF ParseThrows(resp) \/ ReadThrows(resp)
       THEN ClassifyFailed
       ELSE LET moodEntry == NewEntry(now, classifyCalls[i].input, resp,
                                      classifyCalls[i].method)
                history == AppendEntry(moodHistory, moodEntry)
            IN  /\ currentMood' = moodEntry
                /\ moodHistory' = history
                /\ currentInput' = <<>>
                /\ generatePersonalizedContent(moodEntry)
                /\ toast' = ToastMood(Get(resp, "mood"), Get(resp, "confidence"))
                /\ RunEffects(Len(history) # Len(moodHistory), history)
    /\ UNCHANGED <<now, mounted, weeklySummaries, patternInsights, submits>>

\* a completion that writes the content into the entry object itself, which
\* the stored summaries share
ElaborateReturnsInPlace(i, resp) ==
    /\ mounted
    /\ i \in DOMAIN elaborateCalls
    /\ elaborateCalls' = RemoveAt(elaborateCalls, i)
    /\ IF ~resp.ok
       THEN UNCHANGED <<moodHistory, weeklySummaries, currentMood,
                        isGeneratingInsights, patternCalls, summarizeCalls,
                        summarizeIssued>>
       ELSE LET history == PatchContent(moodHistory, elaborateCalls[i].id, resp.text)
            IN  /\ currentMood' = IF currentMood # Null
                                  THEN [currentMood EXCEPT !.content = resp.text]
                                  ELSE Null
                /\ moodHistory' = history
                /\ weeklySummaries' =
                       [k \in DOMAIN weeklySummaries |->
                           [weeklySummaries[k] EXCEPT !.entries =
                               PatchContent(@, elaborateCalls[i].id, resp.text)]]
                /\ RunEffects(Len(history) # Len(moodHistory), history)
    /\ UNCHANGED <<now, mounted, currentInput, isAnalyzing,
                   patternInsights, toast, classifyCalls, submits>>

\* the elaborate call of generatePersonalizedContent settles
ElaborateReturns(i, resp) ==
    /\ mounted
    /\ i \in DOMAIN elaborateCalls
    /\ elaborateCalls' = RemoveAt(elaborateCalls, i)
    /\ IF ~resp.ok
       THEN UNCHANGED <<moodHistory, currentMood, isGeneratingInsights, patternCalls,
                        summarizeCalls, summarizeIssued>>
       ELSE LET history == PatchContent(moodHistory, elaborateCalls[i].id, resp.text)
            IN  /\ currentMood' = IF currentMood # Null
                                  THEN [currentMood EXCEPT !.content = resp.text]
                                  ELSE Null
                /\ moodHistory' = history
                /\ RunEffects(Len(history) # Len(moodHistory), history)
    /\ UNCHANGED <<now, mounted, weeklySummaries, currentInput, isAnalyzing,
                   patternInsights, toast, classifyCalls, submits>>

\* the 'Generate Pattern Insights' button, shown with at least 5 entries, no
\* insights and no generation in flight
ClickGenerateInsights ==
    /\ mounted
    /\ Len(moodHistory) >= PatternMinEntries
    /\ patternInsights = <<>> /\ ~isGeneratingInsights
    /\ generatePatternInsights(moodHistory)
    /\ UNCHANGED <<now, mounted, moodHistory, weeklySummaries, currentInput,
                   isAnalyzing, currentMood, patternInsights, toast, classifyCalls,
                   elaborateCalls, summarizeCalls, submits, summarizeIssued>>

\* the 'Refresh Insights' button: shown with insights, disabled={isGeneratingInsights}
ClickRefreshInsights ==
    /\ mounted
    /\ Len(moodHistory) >= PatternMinEntries
    /\ patternInsights # <<>> /\ ~isGeneratingInsights
    /\ generatePatternInsights(moodHistory)
    /\ UNCHANGED <<now, mounted, moodHistory, weeklySummaries, currentInput,
                   isAnalyzing, currentMood, patternInsights, toast, classifyCalls,
                   elaborateCalls, summarizeCalls, submits, summarizeIssued>>

\* a completion that keeps the insights shown when the answer is unusable
PatternReturnsKeepsInsights(i, resp) ==
    /\ mounted
    /\ i \in DOMAIN patternCalls
    /\ patternCalls' = RemoveAt(patternCalls, i)
    /\ patternInsights' = IF ParseThrows(resp) THEN patternInsights
                          ELSE IF IsArray(resp) THEN resp.items
                          ELSE patternInsights
    /\ isGeneratingInsights' = FALSE
    /\ UNCHANGED <<now, mounted, moodHistory, weeklySummaries, currentInput,
                   isAnalyzing, currentMood, toast, classifyCalls, elaborateCalls,
                   summarizeCalls, submits, summarizeIssued>>

\* a completion that tells the user of a failure
PatternReturnsShowsError(i, resp) ==
    /\ mounted
    /\ i \in DOMAIN patternCalls
    /\ patternCalls' = RemoveAt(patternCalls, i)
    /\ patternInsights' = IF ParseThrows(resp) THEN <<>>
                          ELSE IF IsArray(resp) THEN resp.items
                          ELSE <<>>
    /\ toast' = IF ParseThrows(resp) THEN <<"Failed to generate insights">> ELSE toast
    /\ isGeneratingInsights' = FALSE
    /\ UNCHANGED <<now, mounted, moodHistory, weeklySummaries, currentInput,
                   isAnalyzing, currentMood, classifyCalls, elaborateCalls,
                   summarizeCalls, submits, summarizeIssued>>

\* a completion without the finally block: the flag stays set when the call
\* rejects or its answer is not JSON
PatternReturnsLeavesFlagOnError(i, resp) ==
    /\ mounted
    /\ i \in DOMAIN patternCalls
    /\ patternCalls' = RemoveAt(patternCalls, i)
    /\ patternInsights' = IF ParseThrows(resp) THEN <<>>
                          ELSE IF IsArray(resp) THEN resp.items
                          ELSE <<>>
    /\ isGeneratingInsights' = IF ParseThrows(resp) THEN isGeneratingInsights ELSE FALSE
    /\ UNCHANGED <<now, mounted, moodHistory, weeklySummaries, currentInput,
                   isAnalyzing, currentMood, toast, classifyCalls, elaborateCalls,
                   summarizeCalls, submits, summarizeIssued>>

\* the patterns call of generatePatternInsights settles
PatternReturns(i, resp) ==
    /\ mounted
    /\ i \in DOMAIN patternCalls
    /\ patternCalls' = RemoveAt(patternCalls, i)
    /\ patternInsights' = IF ParseThrows(resp) THEN <<>>
                          ELSE IF IsArray(resp) THEN resp.items
                          ELSE <<>>
    /\ isGeneratingInsights' = FALSE
    /\ UNCHANGED <<now, mounted, moodHistory, weeklySummaries, currentInput,
                   isAnalyzing, currentMood, toast, classifyCalls, elaborateCalls,
                   summarizeCalls, submits, summarizeIssued>>

\* the 'Generate This Week' button: disabled={moodHistory.length < 3}
ClickGenerateThisWeek ==
    /\ mounted
    /\ ~(Len(moodHistory) < SummaryMinEntries)
    /\ summarizeIssued < MaxSummarize
    /\ generateWeeklySummary(moodHistory)
    /\ UNCHANGED <<now, mounted, moodHistory, weeklySummaries, currentInput,
                   isAnalyzing, currentMood, patternInsights, isGeneratingInsights,
                   toast, classifyCalls, elaborateCalls, patternCalls, submits>>

\* a completion that stores the summary, without the gateway's part, when the
\* call failed
SummarizeReturnsStoresAnyway(i, resp) ==
    /\ mounted
    /\ i \in DOMAIN summarizeCalls
    /\ summarizeCalls' = RemoveAt(summarizeCalls, i)
    /\ IF ParseThrows(resp) \/ ReadThrows(resp)
       THEN /\ weeklySummaries' =
                  PrependSummary(weeklySummaries,
                                 MakeSummary(summarizeCalls[i], JsonObject([error |-> TRUE])))
            /\ UNCHANGED toast
       ELSE /\ weeklySummaries' =
                  PrependSummary(weeklySummaries, MakeSummary(summarizeCalls[i], resp))
            /\ toast' = ToastSummary
    /\ UNCHANGED <<now, mounted, moodHistory, currentInput, isAnalyzing, currentMood,
                   patternInsights, isGeneratingInsights, classifyCalls,
                   elaborateCalls, patternCalls, submits, summarizeIssued>>

\* the summarize call of generateWeeklySummary settles
SummarizeReturns(i, resp) ==
    /\ mounted
    /\ i \in DOMAIN summarizeCalls
    /\ summarizeCalls' = RemoveAt(summarizeCalls, i)
    /\ IF ParseThrows(resp) \/ ReadThrows(resp)
       THEN UNCHANGED <<weeklySummaries, toast>>
       ELSE /\ weeklySummaries' =
                  PrependSummary(weeklySummaries, MakeSummary(summarizeCalls[i], resp))
            /\ toast' = ToastSummary
    /\ UNCHANGED <<now, mounted, moodHistory, currentInput, isAnalyzing, currentMood,
                   patternInsights, isGeneratingInsights, classifyCalls,
                   elaborateCalls, patternCalls, submits, summarizeIssued>>

----------------------------------------------------------------------------
(* Specifications *)

\* the user types and submits; classify and elaborate calls settle
JournalOf(texts, classified, elaborated) ==
    \/ \E text \in texts : SetCurrentInput(text)
    \/ ClickAnalyze
    \/ \E i \in DOMAIN classifyCalls, resp \in classified : ClassifyReturns(i, resp)
    \/ \E i \in DOMAIN elaborateCalls, resp \in elaborated : ElaborateReturns(i, resp)

\* the pattern-insight buttons; patterns calls settle
Patterns ==
    \/ ClickGenerateInsights
    \/ ClickRefreshInsights
    \/ \E i \in DOMAIN patternCalls, resp \in PatternResponses : PatternReturns(i, resp)

\* the weekly-summary button; summarize calls settle
Summaries ==
    \/ ClickGenerateThisWeek
    \/ \E i \in DOMAIN summarizeCalls, resp \in SummarizeResponses :
          SummarizeReturns(i, resp)

Next == Mount \/ Tick \/ JournalOf(Texts, ClassifyResponses, ElaborateResponses)

\* the journal of a session that starts from a long history
Spec == InitDormant /\ [][Next]_vars

\* one text, one classification, one supportive content
PlainText == { <<" ", "b">> }
PlainClassified == { JsonObject([mood |-> Str("excited"), confidence |-> Num(92)]) }
PlainElaborated == { [ok |-> TRUE, text |-> Str("c1")] }

NextCall ==
    \/ Mount \/ Tick
    \/ \E input \in Texts, method \in Methods : CallAnalyzeMood(input, method)
    \/ \E i \in DOMAIN classifyCalls, resp \in ClassifyResponses :
          ClassifyReturns(i, resp)
    \/ \E i \in DOMAIN elaborateCalls, resp \in PlainElaborated :
          ElaborateReturns(i, resp)

\* analyzeMood called directly, with any input, in a first session
SpecCall == InitFresh /\ [][NextCall]_vars

NextSummaries ==
    \/ Mount \/ WeekPasses
    \/ JournalOf(PlainText, PlainClassified, PlainElaborated)
    \/ Summaries

InitSummaries == InitLoaded \/ InitShort

\* the weekly summaries of a session with a plain journal
SpecSummaries == InitSummaries /\ [][NextSummaries]_vars

NextInsights ==
    \/ Mount \/ Tick
    \/ JournalOf(PlainText, PlainClassified, PlainElaborated)
    \/ Patterns

\* the pattern insights of a session with a plain journal that starts from a
\* short history
SpecInsights == InitShort /\ [][NextInsights]_vars

\* one weekly analysis
PlainSummarized ==
    { JsonObject([insights |-> Arr(<<"i">>), recommendations |-> Arr(<<"r">>)]) }

\* the pattern insights of a session with a plain journal that starts from a
\* long history
SpecInsightsLong == InitDormant /\ [][NextInsights]_vars

NextFlags ==
    \/ Mount
    \/ JournalOf(PlainText, ClassifyResponses, PlainElaborated)
    \/ Patterns

\* the gateway answers every classify call and every patterns call
GatewayAnswers ==
    /\ WF_vars(\E i \in DOMAIN classifyCalls, resp \in ClassifyResponses :
                  ClassifyReturns(i, resp))
    /\ WF_vars(\E i \in DOMAIN patternCalls, resp \in PatternResponses :
                  PatternReturns(i, resp))

\* the journal and the pattern insights of a session that starts from a short
\* history, with a gateway that answers
SpecFlags == InitShort /\ [][NextFlags]_vars /\ GatewayAnswers

NextWeek ==
    \/ Mount \/ Tick
    \/ JournalOf(PlainText, PlainClassified, PlainElaborated)
    \/ \E i \in DOMAIN summarizeCalls, resp \in PlainSummarized :
          SummarizeReturns(i, resp)

\* the weekly summaries of a session that starts from a long history, with
\* the clock followed within the week
SpecWeek == InitLoaded /\ [][NextWeek]_vars

NextMoods == Mount \/ Summaries

\* the first render and the weekly summaries of the sessions that differ by
\* the moods of their history
SpecMoods == InitMoods /\ [][NextMoods]_vars

----------------------------------------------------------------------------
(* Claims about the Entry Store *)

\* the timestamp of the oldest entry of the long histories a session starts from
OldestDormant == DormantHistory(PrefillLen)[PrefillLen].timestamp

\* C1: in every reachable state the mood history holds at most 50 entries.
HistoryAtMostFifty == Len(moodHistory) <= MaxHistory

\* C1 witness: both submissions were classified into a history one short of
\* its capacity: the history is full and the oldest persisted entry is gone
HistoryFullAfterAppends ==
    /\ Len(moodHistory) = MaxHistory
    /\ submits = MaxSubmits
    /\ classifyCalls = <<>>
    /\ moodHistory[MaxHistory].timestamp > OldestDormant

\* C2 as stated: adjacent entries have strictly decreasing timestamps
StrictlyNewestFirst ==
    \A k \in 1..(Len(moodHistory) - 1) :
        moodHistory[k].timestamp > moodHistory[k + 1].timestamp

\* C2, amended: in every reachable state adjacent entries of the mood history
\* have non-increasing timestamps (the entry at the lower index is at least as
\* recent as the one after it)
NewestFirst ==
    \A k \in 1..(Len(moodHistory) - 1) :
        moodHistory[k].timestamp >= moodHistory[k + 1].timestamp

\* C2 witness: two entries classified at the same clock reading are adjacent
EqualTimestampsAdjacent ==
    \E k \in 1..(Len(moodHistory) - 1) :
        moodHistory[k].timestamp = moodHistory[k + 1].timestamp

\* a classify answer that carries both required fields
HasMoodAndConfidence(resp) ==
    /\ resp.ok /\ resp.json /\ resp.type = "object"
    /\ {"mood", "confidence"} \subseteq DOMAIN resp.fields

\* a step that prepends one entry and drops only what lies beyond index 50
PrependsAndTruncates(old, new) ==
    /\ Len(new) = IF Len(old) < MaxHistory THEN Len(old) + 1 ELSE MaxHistory
    /\ \A k \in 1..Len(old) : k + 1 <= MaxHistory => new[k + 1] = old[k]

\* a step that keeps every entry in its place, up to its content
KeepsEntriesInPlace(old, new) ==
    /\ Len(new) = Len(old)
    /\ \A k \in 1..Len(old) : [new[k] EXCEPT !.content = old[k].content] = old[k]

\* C3: a successful classification of text t as {mood m, confidence c} leaves
\* the history equal to the first 50 of the new entry (t, m, c, the given
\* method) followed by the previous history; and every step either does that
\* or keeps every entry in its place, so an entry leaves only as the oldest of
\* a full store.
AppendPrependsAndEvictsOldest ==
    [][ /\ \A i \in DOMAIN classifyCalls, resp \in ClassifyResponses :
              (HasMoodAndConfidence(resp) /\ ClassifyReturns(i, resp)) =>
                  /\ PrependsAndTruncates(moodHistory, moodHistory')
                  /\ moodHistory'[1].text = classifyCalls[i].input
                  /\ moodHistory'[1].mood = resp.fields.mood
                  /\ moodHistory'[1].confidence = resp.fields.confidence
                  /\ moodHistory'[1].inputMethod = classifyCalls[i].method
        /\ \/ PrependsAndTruncates(moodHistory, moodHistory')
           \/ KeepsEntriesInPlace(moodHistory, moodHistory')
      ]_vars

\* C3 witness: a classified entry (text " b", excited, 92) is at index 0 of a
\* full history from which the oldest persisted entry was evicted
ClassifiedEntryAtFront ==
    /\ Len(moodHistory) = MaxHistory
    /\ moodHistory[1].text = <<" ", "b">>
    /\ moodHistory[1].mood = Str("excited")
    /\ moodHistory[1].confidence = Num(92)
    /\ moodHistory[MaxHistory].timestamp > OldestDormant

\* a text with no character other than spaces
IsBlank(text) == \A k \in DOMAIN text : text[k] = " "

\* C4: analyzeMood on an empty or whitespace-only input issues no gateway
\* request, shows the validation error and leaves the mood history,
\* currentMood and isAnalyzing unchanged.
BlankInputRejected ==
    [][ \A input \in Texts, method \in Methods :
            (IsBlank(input) /\ CallAnalyzeMood(input, method)) =>
                /\ toast' = <<"Please enter some text to analyze">>
                /\ UNCHANGED <<classifyCalls, elaborateCalls, patternCalls,
                               summarizeCalls>>
                /\ UNCHANGED <<moodHistory, currentMood, isAnalyzing>>
      ]_vars

\* C4 witness: the validation error is shown while an earlier classify call is
\* outstanding and an entry is in the history
ValidationErrorShown ==
    /\ toast = <<"Please enter some text to analyze">>
    /\ isAnalyzing
    /\ Len(classifyCalls) = 1
    /\ Len(moodHistory) = 1
    /\ currentMood # Null

\* C5: when the classify call fails (network error, or a body that is not
\* JSON) analyzeMood shows the error notification, appends no entry, leaves
\* the mood history and currentMood as they were and issues no elaborate
\* request.
ClassifyFailureRecordsNothing ==
    [][ \A i \in DOMAIN classifyCalls, resp \in {Rejected, NotJson} :
            ClassifyReturns(i, resp) =>
                /\ toast' = <<"Failed to analyze mood. Please try again.">>
                /\ UNCHANGED <<moodHistory, currentMood, elaborateCalls>>
      ]_vars

\* C5 witness: the failure notification is shown after an earlier entry was
\* classified, and that entry is still the current mood and the newest entry
FailureAfterSuccess ==
    /\ toast = <<"Failed to analyze mood. Please try again.">>
    /\ submits = MaxSubmits
    /\ classifyCalls = <<>>
    /\ currentMood # Null
    /\ moodHistory[1].id = currentMood.id
    /\ Len(moodHistory) = MaxHistory

\* C6 as stated: no entry of the mood history lacks its mood or its confidence
NoEntryWithoutMoodOrConfidence ==
    \A k \in DOMAIN moodHistory :
        /\ moodHistory[k].mood # Undefined
        /\ moodHistory[k].confidence # Undefined

----------------------------------------------------------------------------
(* Claims about the Summary Store *)

\* C7 as stated: no two stored summaries have the same weekStart
OneSummaryPerWeek ==
    \A i, j \in DOMAIN weeklySummaries :
        i # j => weeklySummaries[i].weekStart # weeklySummaries[j].weekStart

\* C8: in every reachable state the Summary Store holds at most 12 summaries,
\* and a step that changes it prepends one summary and drops only the
\* summaries beyond index 11.
SummariesAtMostTwelve ==
    /\ [](Len(weeklySummaries) <= MaxSummaries)
    /\ [][ weeklySummaries' # weeklySummaries =>
              /\ Len(weeklySummaries') =
                     IF Len(weeklySummaries) < MaxSummaries
                     THEN Len(weeklySummaries) + 1 ELSE MaxSummaries
              /\ \A k \in 1..Len(weeklySummaries) :
                     k + 1 <= MaxSummaries =>
                         weeklySummaries'[k + 1] = weeklySummaries[k]
         ]_vars

\* C8 witness: the store is full, its newest summary was generated in this
\* session and the oldest persisted summary was dropped
SummaryStoreFullAfterPrepend ==
    /\ Len(weeklySummaries) = MaxSummaries
    /\ weeklySummaries[1].weekStart >= T0 - WEEK
    /\ weeklySummaries[MaxSummaries].weekStart >
           PrefillSummaryStore[PrefillSummaries].weekStart

\* at least 3 entries, all inside [weekStart, weekEnd)
CoversItsWeek(s) ==
    /\ Len(s.entries) >= 3
    /\ s.weekEnd = s.weekStart + WEEK
    /\ \A k \in DOMAIN s.entries :
           /\ s.entries[k].timestamp >= s.weekStart
           /\ s.entries[k].timestamp < s.weekEnd

\* the entries of a history with a timestamp inside [weekStart, weekStart + 7d)
InWeek(history, weekStart) ==
    { k \in DOMAIN history :
        history[k].timestamp >= weekStart /\ history[k].timestamp < weekStart + WEEK }

\* C9: every stored summary, and every summarize request sent, has at least 3
\* entries, all inside its own [weekStart, weekEnd) window; and a summarize
\* request is sent only for a week in which at least 3 entries of the history
\* have their timestamp.
NoSummaryUnderThreeEntries ==
    /\ [](/\ \A k \in DOMAIN weeklySummaries : CoversItsWeek(weeklySummaries[k])
          /\ \A k \in DOMAIN summarizeCalls : CoversItsWeek(summarizeCalls[k]))
    /\ [][ Len(summarizeCalls') > Len(summarizeCalls) =>
              Cardinality(InWeek(moodHistory',
                                 summarizeCalls'[Len(summarizeCalls')].weekStart)) >= 3
         ]_vars

\* C9 witness: a week after the session began an entry was classified, the
\* weekly effect ran (a summary is due), last week holds 1 or 2 entries and no
\* summarize request is outstanding
ThinWeekNotSummarized ==
    /\ now >= T0 + WEEK
    /\ currentMood # Null
    /\ currentMood.timestamp = now
    /\ moodHistory[1] = currentMood
    /\ WeeklyDue(moodHistory, weeklySummaries, now)
    /\ Cardinality(InWeek(moodHistory, TargetWeekStart(now))) \in {1, 2}
    /\ summarizeCalls = <<>>

RECURSIVE SumCounts(_)
SumCounts(dist) == IF dist = <<>> THEN 0 ELSE Head(dist).count + SumCounts(Tail(dist))

\* the counts of dist are the numbers of entries with each mood: they sum to
\* the number of entries, each key is listed once and counts its entries
CountsEntries(dist, entries) ==
    /\ SumCounts(dist) = Len(entries)
    /\ \A i, j \in DOMAIN dist : dist[i].key = dist[j].key => i = j
    /\ \A i \in DOMAIN dist :
           dist[i].count =
               Cardinality({ k \in DOMAIN entries : ToKey(entries[k].mood) = dist[i].key })

\* C10: the counts of every stored summary's moodDistribution sum to the
\* number of entries of its snapshot and each is the number of snapshot
\* entries with that mood; the same holds for the frequency mapping of a
\* pattern-insight request over its at most 20 entries.
DistributionCountsEntries ==
    /\ \A k \in DOMAIN weeklySummaries :
           CountsEntries(weeklySummaries[k].moodDistribution, weeklySummaries[k].entries)
    /\ \A k \in DOMAIN patternCalls :
           /\ Len(patternCalls[k].recentEntries) <= 20
           /\ CountsEntries(patternCalls[k].moodCounts, patternCalls[k].recentEntries)

\* C10 witness: a summary generated in this session counts two moods or more,
\* one of them twice, while a pattern-insight request is outstanding
SummaryWithRepeatedMoodStored ==
    /\ patternCalls # <<>>
    /\ Len(patternCalls[1].moodCounts) >= 2
    /\ \E k \in DOMAIN weeklySummaries :
           /\ weeklySummaries[k].weekStart >= T0 - WEEK
           /\ Len(weeklySummaries[k].moodDistribution) >= 2
           /\ \E i \in DOMAIN weeklySummaries[k].moodDistribution :
                  weeklySummaries[k].moodDistribution[i].count >= 2

----------------------------------------------------------------------------
(* Claims about the aggregations *)

\* the count of a mood in a distribution, 0 when it has none
CountIn(dist, key) ==
    IF KeyIndex(dist, key) = 0 THEN 0 ELSE dist[KeyIndex(dist, key)].count

\* the index of the first entry with the mood, scanning in stored order
FirstSeen(entries, key) ==
    CHOOSE k \in DOMAIN entries :
        /\ ToKey(entries[k].mood) = key
        /\ \A j \in 1..(k - 1) : ToKey(entries[j].mood) # key

\* the dominant mood has a maximal count and, among the moods of that count,
\* is the one seen first
DominantIsFirstSeenMax(s) ==
    /\ \E k \in DOMAIN s.entries : ToKey(s.entries[k].mood) = s.dominantMood
    /\ \A k \in DOMAIN s.entries :
           LET m == ToKey(s.entries[k].mood)
           IN  \/ CountIn(s.moodDistribution, m) < CountIn(s.moodDistribution, s.dominantMood)
               \/ /\ CountIn(s.moodDistribution, m) = CountIn(s.moodDistribution, s.dominantMood)
                  /\ FirstSeen(s.entries, s.dominantMood) <= FirstSeen(s.entries, m)

\* C11: the dominantMood of every stored weekly summary is a mood whose count
\* in moodDistribution is maximal, and when several moods share the maximal
\* count it is the one met first while scanning the summary's entries in
\* their stored order.
DominantMoodIsFirstSeenMaximum ==
    \A k \in DOMAIN weeklySummaries : DominantIsFirstSeenMax(weeklySummaries[k])

\* C11 witness: a stored summary counts two moods twice each, and its dominant
\* mood is the one of its first entry, not the one of its last entry
TiedSummaryStored ==
    \E k \in DOMAIN weeklySummaries :
        LET s == weeklySummaries[k]
        IN  /\ Len(s.entries) = 4
            /\ Len(s.moodDistribution) = 2
            /\ s.moodDistribution[1].count = 2
            /\ s.moodDistribution[2].count = 2
            /\ s.dominantMood = ToKey(s.entries[1].mood)
            /\ s.dominantMood # ToKey(s.entries[4].mood)

\* the number of entries with a positive mood among the 5 most recent
RecentPositives ==
    Cardinality({ k \in DOMAIN moodHistory :
        k <= 5 /\ moodHistory[k].mood \in
                     {Str("happy"), Str("excited"), Str("calm"), Str("motivated")} })

\* C12: the trend is none (null) when the history has fewer than 2 entries;
\* otherwise, with p the number of entries among the 5 most recent whose mood
\* is happy, excited, calm or motivated, it is positive iff p >= 3, concerning
\* iff p <= 1 and mixed iff p = 2.
TrendFollowsRecentMoods ==
    LET trend == getMoodTrend(moodHistory)
    IN  IF Len(moodHistory) < 2 THEN trend = Null
        ELSE /\ trend \in {"positive", "concerning", "mixed"}
             /\ trend = "positive" <=> RecentPositives >= 3
             /\ trend = "concerning" <=> RecentPositives <= 1
             /\ trend = "mixed" <=> RecentPositives = 2

\* C12 witness: the component has rendered a history of 6 entries, 2 of its 5
\* most recent positive and the sixth positive too: the trend is mixed
MixedTrendOverFiveOfSix ==
    /\ mounted
    /\ Len(moodHistory) = 6
    /\ RecentPositives = 2
    /\ moodHistory[6].mood = Str("calm")
    /\ getMoodTrend(moodHistory) = "mixed"

----------------------------------------------------------------------------
(* Claims about the pattern insights *)

\* C13: at most one pattern-insight request is outstanding at any time, and
\* the flag is set exactly while it is; while a request is outstanding no
\* step issues another (a trigger is refused, and the completion issues
\* nothing in its place); and a request is issued only by the step of its
\* trigger: the first render, a change of the history's length or a click.
PatternRequestsSingleFlight ==
    /\ [](/\ Len(patternCalls) <= 1
          /\ isGeneratingInsights <=> patternCalls # <<>>)
    /\ [][ /\ patternCalls # <<>> => patternCalls' \in {patternCalls, <<>>}
           /\ Len(patternCalls') > Len(patternCalls) =>
                  \/ ~mounted
                  \/ Len(moodHistory') # Len(moodHistory)
                  \/ ClickGenerateInsights
                  \/ ClickRefreshInsights
         ]_vars

\* C13 witness: the history has grown since the outstanding request was
\* issued: the trigger of that change arrived while the request was
\* outstanding and issued nothing
TriggerRefusedWhileOutstanding ==
    /\ isGeneratingInsights
    /\ Len(patternCalls) = 1
    /\ Len(patternCalls[1].recentEntries) < PatternWindow
    /\ Len(moodHistory) > Len(patternCalls[1].recentEntries)

\* C14: when the answer to a pattern-insight request is not valid JSON, or is
\* JSON that is not an array, the insight set becomes empty, the handler
\* completes (the in-flight flag is cleared) and the mood history and the
\* Summary Store are unchanged.
MalformedInsightsEmptyTheSet ==
    [][ \A i \in DOMAIN patternCalls :
          \A resp \in {NotJson, JsonNull, JsonObject([insights |-> Arr(<<"i">>)])} :
            PatternReturns(i, resp) =>
                /\ patternInsights' = <<>>
                /\ isGeneratingInsights' = FALSE
                /\ UNCHANGED <<moodHistory, weeklySummaries>>
      ]_vars

\* C14 witness: the history reached 5 entries in this session, so a request
\* was issued; none is outstanding and the insight set is empty
InsightsEmptyAfterRequest ==
    /\ mounted
    /\ Len(moodHistory) > ShortLen
    /\ Len(moodHistory) >= 5
    /\ patternCalls = <<>>
    /\ ~isGeneratingInsights
    /\ patternInsights = <<>>

\* C15 as stated: a failed generation leaves a non-empty insight set as it was
FailedInsightsKeepPriorInsights ==
    [][ \A i \in DOMAIN patternCalls, resp \in {Rejected, NotJson} :
            (patternInsights # <<>> /\ PatternReturns(i, resp)) =>
                patternInsights' = patternInsights
      ]_vars

\* C15, amended: a failed pattern-insight generation (the call rejects or its
\* answer is not JSON) shows nothing to the user and leaves the mood history,
\* the Summary Store, currentMood and the input unchanged, but it empties the
\* insight set: insights shown before the request are discarded.
FailedInsightsDiscardPriorInsights ==
    [][ \A i \in DOMAIN patternCalls, resp \in {Rejected, NotJson} :
            PatternReturns(i, resp) =>
                /\ patternInsights' = <<>>
                /\ UNCHANGED <<moodHistory, weeklySummaries, currentMood,
                               currentInput, toast>>
      ]_vars

\* C15 witness: insights are shown while a later request is outstanding, the
\* state in which a failure discards them
InsightsShownWhileRegenerating ==
    /\ patternInsights # <<>>
    /\ isGeneratingInsights
    /\ Len(patternCalls) = 1

----------------------------------------------------------------------------
(* Claims about failed summaries *)

\* C16: when the summarize call fails (it rejects, or its answer is not JSON)
\* the Summary Store and the mood history are as before, no success is
\* shown, the handler completes and issues no request in its place; and a
\* summarize request is issued only by the first render, by a step that
\* writes the mood history (an append or a patch, be it one that changes no
\* entry) or by a click on 'Generate This Week'.
SummarizeFailureChangesNothing ==
    [][ /\ \A i \in DOMAIN summarizeCalls, resp \in {Rejected, NotJson} :
              SummarizeReturns(i, resp) =>
                  /\ UNCHANGED <<weeklySummaries, moodHistory, toast>>
                  /\ summarizeCalls' = RemoveAt(summarizeCalls, i)
        /\ Len(summarizeCalls') > Len(summarizeCalls) =>
              \/ ~mounted
              \/ \E i \in DOMAIN classifyCalls, resp \in ClassifyResponses :
                    ~(ParseThrows(resp) \/ ReadThrows(resp)) /\ ClassifyReturns(i, resp)
              \/ \E i \in DOMAIN elaborateCalls, resp \in ElaborateResponses :
                    resp.ok /\ ElaborateReturns(i, resp)
              \/ ClickGenerateThisWeek
      ]_vars

\* C16 witness: the one summarize request of the session has completed and
\* stored nothing, no success is shown, a summary of last week is still due
\* and no request is outstanding
SummarizeFailedWithoutRetry ==
    /\ mounted
    /\ summarizeIssued = 1
    /\ summarizeCalls = <<>>
    /\ weeklySummaries = PrefillSummaryStore
    /\ toast # <<"Weekly summary generated!">>
    /\ WeeklyDue(moodHistory, weeklySummaries, now)
    /\ Cardinality(InWeek(moodHistory, TargetWeekStart(now))) >= 3

----------------------------------------------------------------------------
(* Claims about the supportive content *)

\* the entries whose content a step changes
ContentChanged ==
    { k \in DOMAIN moodHistory : moodHistory'[k].content # moodHistory[k].content }

\* C17 as stated: the completion of an elaborate call writes content onto the
\* entry the call was issued for and onto no other entry
ContentGoesToItsOwnEntry ==
    [][ \A i \in DOMAIN elaborateCalls, resp \in ElaborateResponses :
            ElaborateReturns(i, resp) =>
                /\ Cardinality(ContentChanged) <= 1
                /\ \A k \in ContentChanged :
                       [moodHistory[k] EXCEPT !.content = NoContent] = elaborateCalls[i]
      ]_vars

\* C18 as stated: the entries of the mood history have pairwise distinct ids
EntryIdsDistinct ==
    \A i, j \in DOMAIN moodHistory : i # j => moodHistory[i].id # moodHistory[j].id

\* C19: the completion of an elaborate call keeps the length and the order of
\* the history and changes nothing but the content of the entries with the
\* id of the call's entry (nothing at all when the call failed); and the
\* patch of an id no entry has (the id of an evicted entry, an id not yet
\* given) leaves the history as it is.
PatchChangesOnlyMatchingContent ==
    /\ [][ \A i \in DOMAIN elaborateCalls, resp \in ElaborateResponses :
              ElaborateReturns(i, resp) =>
                  /\ Len(moodHistory') = Len(moodHistory)
                  /\ \A k \in DOMAIN moodHistory :
                         moodHistory'[k] =
                             IF resp.ok /\ moodHistory[k].id = elaborateCalls[i].id
                             THEN [moodHistory[k] EXCEPT !.content = resp.text]
                             ELSE moodHistory[k]
         ]_vars
    /\ [](\A id \in {NumberToString(OldestDormant), NumberToString(now + 1)} :
            \A content \in {Str("c1"), Str("c2")} :
              (\A k \in DOMAIN moodHistory : moodHistory[k].id # id) =>
                  PatchContent(moodHistory, id, content) = moodHistory)

\* C19 witness: of two entries classified at different clock readings the
\* older one has its content and the newer one has none yet, in a full history
\* from which the oldest persisted entry was evicted
OlderEntryPatchedAlone ==
    /\ Len(moodHistory) = MaxHistory
    /\ \A k \in DOMAIN moodHistory : moodHistory[k].id # NumberToString(OldestDormant)
    /\ moodHistory[1].id # moodHistory[2].id
    /\ moodHistory[1].content = NoContent
    /\ moodHistory[2].timestamp >= T0
    /\ moodHistory[2].content = Str("c2")
    /\ Len(elaborateCalls) = 1

\* C20 as stated: the content of an entry that has one never changes again
ContentSetOnce ==
    [][ \A i \in DOMAIN elaborateCalls, resp \in ElaborateResponses :
            ElaborateReturns(i, resp) =>
                \A k \in DOMAIN moodHistory :
                    moodHistory[k].content # NoContent =>
                        moodHistory'[k].content = moodHistory[k].content
      ]_vars

----------------------------------------------------------------------------
(* Claims about the weeks *)

\* C21: a stored summary never changes: a step that changes the Summary Store
\* moves every summary, as it is, one index down (the last one out of a full
\* store), and the completion of an elaborate call, which patches entries of
\* the mood history, leaves the Summary Store as it is.
StoredSummariesImmutable ==
    [][ /\ (\E i \in DOMAIN elaborateCalls, resp \in ElaborateResponses :
                ElaborateReturns(i, resp)) => UNCHANGED weeklySummaries
        /\ weeklySummaries' # weeklySummaries =>
              \A k \in DOMAIN weeklySummaries :
                  k + 1 <= MaxSummaries => weeklySummaries'[k + 1] = weeklySummaries[k]
      ]_vars

\* C21 witness: a stored summary holds an entry without content that has since
\* been patched with its content in the mood history
SnapshotOlderThanPatch ==
    \E k \in DOMAIN weeklySummaries :
        \E j \in DOMAIN weeklySummaries[k].entries, h \in DOMAIN moodHistory :
            /\ weeklySummaries[k].entries[j].id = moodHistory[h].id
            /\ weeklySummaries[k].entries[j].timestamp >= T0
            /\ weeklySummaries[k].entries[j].content = NoContent
            /\ moodHistory[h].content # NoContent

----------------------------------------------------------------------------
(* Claims about the order of the calls *)

----------------------------------------------------------------------------
(* Claims about the week start and the weekly trigger *)

\* the week starts of the requests outstanding and of the summaries stored
WeekStartsInUse ==
    { summarizeCalls[k].weekStart : k \in DOMAIN summarizeCalls } \cup
    { weeklySummaries[k].weekStart : k \in DOMAIN weeklySummaries }

\* C23 as stated: every week start computed is a Sunday at local midnight, and
\* two week starts of the same week are the same value
WeekStartIsSundayMidnight ==
    /\ \A ws \in WeekStartsInUse : ws % DAY = 0 /\ GetDay(ws) = 0
    /\ \A ws1, ws2 \in WeekStartsInUse :
           ws1 \div WEEK = ws2 \div WEEK => ws1 = ws2

\* C24 as stated: once the latest stored summary is the one of the week before
\* the current week, no step but a click on 'Generate This Week' issues a
\* summarize request
NoAutomaticSummaryOnceStored ==
    [][ ( /\ mounted
          /\ weeklySummaries # <<>>
          /\ weeklySummaries[1].weekStart \div WEEK = (now \div WEEK) - 1
          /\ ~ClickGenerateThisWeek )
        => Len(summarizeCalls') <= Len(summarizeCalls)
      ]_vars

\* C27 as stated: the weekStart values of the Summary Store never increase
\* with the index
SummariesNewestFirst ==
    \A k \in 1..(Len(weeklySummaries) - 1) :
        weeklySummaries[k].weekStart >= weeklySummaries[k + 1].weekStart

\* a step that writes the mood history: an append or a content patch
HistoryWritten ==
    \/ \E i \in DOMAIN classifyCalls, resp \in ClassifyResponses :
          (~(ParseThrows(resp) \/ ReadThrows(resp)) /\ ClassifyReturns(i, resp))
    \/ \E i \in DOMAIN elaborateCalls, resp \in ElaborateResponses :
          (resp.ok /\ ElaborateReturns(i, resp))

\* C25: the weekly trigger is not single-flight: every write of the mood
\* history (an append, a content patch) made while a summary is due for a
\* week of at least 3 entries issues a summarize request for that week,
\* whatever requests are outstanding; and every request answered is stored,
\* whatever the store holds.
WeeklyTriggerFiresPerChange ==
    [][ /\ ( /\ HistoryWritten
              /\ WeeklyDue(moodHistory', weeklySummaries, now)
              /\ Cardinality(InWeek(moodHistory', TargetWeekStart(now))) >= 3 )
           => /\ Len(summarizeCalls') = Len(summarizeCalls) + 1
              /\ summarizeCalls'[Len(summarizeCalls')].weekStart = TargetWeekStart(now)
        /\ \A i \in DOMAIN summarizeCalls, resp \in SummarizeResponses :
              (~ParseThrows(resp) /\ SummarizeReturns(i, resp)) =>
                  weeklySummaries'[1].weekStart = summarizeCalls[i].weekStart
      ]_vars

\* C25 witness: after an append and its content patch two summarize requests
\* for the same week are outstanding, and a summary of that week, generated in
\* this session, is already stored
TwoRequestsForOneWeek ==
    /\ elaborateCalls = <<>>
    /\ moodHistory[1].timestamp >= T0
    /\ moodHistory[1].content # NoContent
    /\ weeklySummaries # <<>>
    /\ \E i, j \in DOMAIN summarizeCalls :
           /\ i # j
           /\ summarizeCalls[i].weekStart = summarizeCalls[j].weekStart
           /\ summarizeCalls[i].weekStart = weeklySummaries[1].weekStart

----------------------------------------------------------------------------
(* Claims about the pattern trigger and the flags *)

\* C26 as stated: whenever an entry is appended to a store of at least 5
\* entries and no pattern request is in flight, a pattern request is issued
PatternRequestOnEveryAppend ==
    [][ \A i \in DOMAIN classifyCalls, resp \in ClassifyResponses :
            ( /\ ~(ParseThrows(resp) \/ ReadThrows(resp))
              /\ ClassifyReturns(i, resp)
              /\ Len(moodHistory) >= 5
              /\ ~isGeneratingInsights )
            => Len(patternCalls') = Len(patternCalls) + 1
      ]_vars

\* C28 as stated: the completion of the elaborate call of an entry other than
\* the one shown as currentMood leaves currentMood as it is
CurrentMoodKeepsItsOwnContent ==
    [][ \A i \in DOMAIN elaborateCalls, resp \in ElaborateResponses :
            ( /\ resp.ok
              /\ ElaborateReturns(i, resp)
              /\ currentMood # Null
              /\ currentMood.id # elaborateCalls[i].id )
            => currentMood' = currentMood
      ]_vars

\* C29: the step in which a classify call returns (with an answer, a gateway
\* error or a parse error) leaves isAnalyzing false, and the step in which a
\* patterns call returns (an array, a non-array or an error) leaves
\* isGeneratingInsights false; so, with a gateway that answers every call,
\* a flag that is set is eventually cleared.
FlagsReleasedOnEveryPath ==
    /\ [][ /\ \A i \in DOMAIN classifyCalls, resp \in ClassifyResponses :
                 ClassifyReturns(i, resp) => ~isAnalyzing'
           /\ \A i \in DOMAIN patternCalls, resp \in PatternResponses :
                 PatternReturns(i, resp) => ~isGeneratingInsights'
         ]_vars
    /\ (isAnalyzing ~> ~isAnalyzing)
    /\ (isGeneratingInsights ~> ~isGeneratingInsights)

\* C29 witness: a classify call has failed and a patterns call, issued when
\* the history grew to 5 entries, has returned without insights; both flags
\* are clear and the button is enabled for the text typed since
FlagsClearAfterFailures ==
    /\ toast = <<"Failed to analyze mood. Please try again.">>
    /\ classifyCalls = <<>> /\ ~isAnalyzing
    /\ Len(moodHistory) > ShortLen
    /\ patternCalls = <<>> /\ ~isGeneratingInsights
    /\ patternInsights = <<>>
    /\ Trim(currentInput) # <<>>

\* C30: at most one classify request is outstanding at any time, and
\* isAnalyzing is set exactly while it is; while it is outstanding no step
\* issues another; so the entry an append puts at the front is the one of
\* the only submission outstanding.
OneClassifyOutstanding ==
    /\ [](/\ Len(classifyCalls) <= 1
          /\ isAnalyzing <=> classifyCalls # <<>>)
    /\ [][ /\ classifyCalls # <<>> => classifyCalls' \in {classifyCalls, <<>>}
           /\ Len(elaborateCalls') > Len(elaborateCalls) =>
                  /\ classifyCalls' = <<>>
                  /\ moodHistory'[1].text = classifyCalls[1].input
         ]_vars

\* C30 witness: the first submission was classified and stored; the second
\* is outstanding and text is in the text area, so only isAnalyzing keeps
\* the button disabled
SecondSubmissionOutstanding ==
    /\ submits = 2
    /\ Len(moodHistory) = MaxHistory
    /\ moodHistory[1].timestamp >= T0
    /\ isAnalyzing
    /\ Len(classifyCalls) = 1
    /\ Trim(currentInput) # <<>>

====
